---- MODULE Spec2Model ----
(***************************************************************************)
(* openjpeg/utils.py: format sniffing, stream normalisation, the calls     *)
(* into the native codec and the reshaping of the decoded buffer.          *)
(*                                                                         *)
(* A byte is an integer 0..255, a byte string a sequence of bytes.  A      *)
(* stream is a record [kind, caps, pos] over the byte string of the input.  *)
(***************************************************************************)
EXTENDS Integers, Sequences, FiniteSets, TLC

VARIABLES
    input,       \* the argument of the call: [kind, caps, content, pos]
    fmtArg,      \* the j2k_format argument (None or an int)
    codec,       \* what the native codec yields on this content
    fn,          \* the function called: "decode" or "get_parameters"
    reshape,     \* the reshape argument of decode
    pc,          \* position in the call
    nested,      \* TRUE inside the get_parameters call of utils.py:113
    stream,      \* the local `stream`
    j2k_format,  \* the local `j2k_format`
    arr,         \* the local `arr` of decode
    meta,        \* the local `meta` of decode
    ret,         \* the value returned
    err,         \* the exception raised ("none" when none)
    log,         \* what was done to the stream and the codec, in order
    results      \* outcomes of the finished calls on this input

vars == <<input, fmtArg, codec, fn, reshape, pc, nested, stream, j2k_format,
          arr, meta, ret, err, log, results>>

----------------------------------------------------------------------------
(* Bounds of the model *)

MaxTail == 2      \* bytes appended after a signature
MaxJunk == 2      \* bytes written before a signature
MaxBuf == 12      \* length of a decoded buffer
MaxDim == 2       \* rows, columns
MaxComp == 3      \* nr_components

(* Program values *)

None == -1            \* j2k_format=None
ReadSize == 20        \* stream.read(20)
ShortSig == 4         \* data[:4]
LongSig == 12         \* data[:12]
MaxPrecision == 32    \* ParameterRecord.precision is 1..32

Min(a, b) == IF a < b THEN a ELSE b

----------------------------------------------------------------------------
(* _get_format *)

SigJ2K == <<255, 79, 255, 81>>
SigJP2 == <<13, 10, 135, 10>>
SigJP2RFC == <<0, 0, 0, 12, 106, 80, 32, 32, 13, 10, 135, 10>>

\* the keys of the dict magic_numbers
MagicKeys == {SigJ2K, SigJP2, SigJP2RFC}

\* magic_numbers[k], for k a key
magic_numbers(k) ==
    IF k = SigJ2K THEN 0 ELSE IF k = SigJP2 THEN 2 ELSE 2

\* data[:n]
Slice(data, n) == SubSeq(data, 1, Min(n, Len(data)))

\* stream.read(n) on the bytes c at position p: the bytes read
read(c, p, n) == SubSeq(c, p + 1, Min(p + n, Len(c)))

\* stream.seek(p)
seek_stay(s, p) == s
seek(s, p) == [s EXCEPT !.pos = p]

\* the lookups of lines 45-55 on the bytes read: the format, or ValueError
Lookup_first_key(data) ==
    IF Slice(data, ShortSig) \in MagicKeys
    THEN [err |-> "none", value |-> 0]
    ELSE IF Slice(data, LongSig) \in MagicKeys
    THEN [err |-> "none", value |-> 0]
    ELSE [err |-> "ValueError", value |-> None]
Lookup_default(data) ==
    IF Slice(data, ShortSig) \in MagicKeys
    THEN [err |-> "none", value |-> magic_numbers(Slice(data, ShortSig))]
    ELSE IF Slice(data, LongSig) \in MagicKeys
    THEN [err |-> "none", value |-> magic_numbers(Slice(data, LongSig))]
    ELSE [err |-> "none", value |-> 0]
Lookup(data) ==
    IF Slice(data, ShortSig) \in MagicKeys
    THEN [err |-> "none", value |-> magic_numbers(Slice(data, ShortSig))]
    ELSE IF Slice(data, LongSig) \in MagicKeys
    THEN [err |-> "none", value |-> magic_numbers(Slice(data, LongSig))]
    ELSE [err |-> "ValueError", value |-> None]

\* _get_format(stream) on the bytes c: the stream afterwards, the events
\* and the outcome
_get_format(c, s) ==
    LET data == read(c, s.pos, ReadSize)
        out == Lookup(data)
    IN  [stream |-> seek(s, 0),
         events |-> <<[ev |-> "read", pos |-> s.pos],
                      [ev |-> "seek", pos |-> 0]>>,
         data |-> data,
         err |-> out.err,
         value |-> out.value]

----------------------------------------------------------------------------
(* The stream normaliser of decode (94-102) and get_parameters (156-164) *)

required_methods == {"read", "tell", "seek"}

\* isinstance(stream, (bytes, bytearray))
IsRawBuffer(s) == s.kind \in {"bytes", "bytearray"}

\* BytesIO(stream)
BytesIO(s) == [kind |-> "BytesIO", caps |-> required_methods, pos |-> 0]

\* all([hasattr(stream, meth) for meth in required_methods])
HasAnyMethod(s) == \E m \in required_methods : m \in s.caps
HasRequiredMethods(s) == \A m \in required_methods : m \in s.caps

\* lines 94-95 / 156-157
Wrap(s) == IF IsRawBuffer(s) THEN BytesIO(s) ELSE s

----------------------------------------------------------------------------
(* The native codec, _openjpeg: an opaque collaborator.  Its result is a   *)
(* function of the stream contents and position; `codec` holds that        *)
(* function for the contents at hand: what a decode and a parameter read   *)
(* yield on a stream at position 0 and on a stream not at position 0, and  *)
(* where a call leaves the stream.                                         *)

NativeDecode(s) == IF s.pos = 0 THEN codec.decode0 ELSE codec.decodeN
NativeGetParameters(s) == IF s.pos = 0 THEN codec.params0 ELSE codec.paramsN
NativeLeaves(s) == [s EXCEPT !.pos = codec.leave]

----------------------------------------------------------------------------
(* The reshaper, decode lines 114-123 *)

\* ceil(meta["precision"] / 8)
bpp(m) == (m.precision + 7) \div 8

\* f"uint{8 * bpp}" if not meta["is_signed"] else f"int{8 * bpp}"
dtype(m) == [signed |-> m.is_signed, bits |-> 8 * bpp(m)]

\* the widths for which numpy has an integer type named uintN / intN
NumpyIntBits == {8, 16, 32, 64}

\* arr.view(dtype) of a flat uint8 array a: the elements are the groups of
\* itemsize bytes, in order; TypeError when numpy has no such type,
\* ValueError when the size is no multiple of the item size
Groups(a, k) == [i \in 1..(Len(a) \div k) |-> SubSeq(a, (i - 1) * k + 1, i * k)]
view_truncating(a, dt) ==
    IF dt.bits \notin NumpyIntBits
    THEN [err |-> "TypeError", at |-> "dtype", elems |-> <<>>]
    ELSE [err |-> "none", at |-> "", elems |-> Groups(a, dt.bits \div 8)]
view(a, dt) ==
    IF dt.bits \notin NumpyIntBits
    THEN [err |-> "TypeError", at |-> "dtype", elems |-> <<>>]
    ELSE IF Len(a) % (dt.bits \div 8) # 0
    THEN [err |-> "ValueError", at |-> "view", elems |-> <<>>]
    ELSE [err |-> "none", at |-> "", elems |-> Groups(a, dt.bits \div 8)]

\* lines 119-121
shape_always_3d(m) == <<m.rows, m.columns, m.nr_components>>
shape(m) ==
    IF m.nr_components > 1
    THEN <<m.rows, m.columns, m.nr_components>>
    ELSE <<m.rows, m.columns>>

Product(sh) == IF Len(sh) = 2 THEN sh[1] * sh[2] ELSE sh[1] * sh[2] * sh[3]

\* arr.reshape(*shape): ValueError unless the sizes agree
np_reshape(elems, sh) ==
    IF Product(sh) # Len(elems)
    THEN [err |-> "ValueError", at |-> "reshape"]
    ELSE [err |-> "none", at |-> ""]

\* lines 114-123 on the buffer a and the record m
Reshaper(a, m) ==
    LET v == view(a, dtype(m))
        r == np_reshape(v.elems, shape(m))
    IN  IF v.err # "none"
        THEN [tag |-> "error", err |-> v.err, at |-> v.at,
              dtype |-> dtype(m), shape |-> <<>>, elems |-> <<>>]
        ELSE IF r.err # "none"
        THEN [tag |-> "error", err |-> r.err, at |-> r.at,
              dtype |-> dtype(m), shape |-> <<>>, elems |-> <<>>]
        ELSE [tag |-> "array", err |-> "none", at |-> "",
              dtype |-> dtype(m), shape |-> shape(m), elems |-> v.elems]

----------------------------------------------------------------------------
(* Inputs *)

Fill(n, b) == [i \in 1..n |-> b]
Mutate(sig, i, b) == [sig EXCEPT ![i] = b]

\* a ParameterRecord
Meta(p, sg, r, c, n) ==
    [precision |-> p, is_signed |-> sg, rows |-> r, columns |-> c,
     nr_components |-> n, colourspace |-> "unspecified"]
NoMeta == Meta(0, FALSE, 0, 0, 0)

\* the buffer 1, 2, ..., n, with every fourth byte having its high bit set
Buffer(n) == [i \in 1..n |-> IF i % 4 = 0 THEN 255 - i ELSE i]

\* the stream a caller passes: a raw buffer, or an object with some of the
\* three methods standing at some position
AsStream(x) == [kind |-> x.kind, caps |-> x.caps, pos |-> x.pos]
RawInputs(c) ==
    {[kind |-> k, caps |-> {}, content |-> c, pos |-> 0] :
        k \in {"bytes", "bytearray"}}
ObjectInputs(c, capsets) ==
    {[kind |-> "object", caps |-> cs, content |-> c, pos |-> p] :
        cs \in capsets, p \in 0..Len(c)}

Ok(v) == [ok |-> TRUE, val |-> v]
DecodeFailure == [ok |-> FALSE, val |-> <<>>]
ParameterReadFailure == [ok |-> FALSE, val |-> NoMeta]

NoResult == [tag |-> "none", val |-> <<>>, err |-> "none"]
NoResults == [flat |-> NoResult, params |-> NoResult, shaped |-> NoResult]

\* contents of the streams of the calls: each signature alone and followed
\* by a tail, a signature cut short, a signature after junk, no signature
Contents ==
    {SigJ2K \o Fill(t, 7) : t \in 0..MaxTail}
    \cup {SigJP2, SigJP2RFC, <<>>, Slice(SigJ2K, 3)}
    \cup {Fill(j, 0) \o SigJ2K : j \in 1..MaxJunk}
    \cup {Fill(MaxJunk, 0) \o SigJP2}

\* two records that both fit the two-byte buffer
MetaA == Meta(8, FALSE, 1, 2, 1)
MetaB == Meta(16, TRUE, 1, 1, 1)

\* what the codec may yield on contents c
CodecEnvs(c) ==
    [decode0 : {DecodeFailure, Ok(Buffer(2))},
     decodeN : {DecodeFailure, Ok(Buffer(2))},
     params0 : {ParameterReadFailure, Ok(MetaA), Ok(MetaB)},
     paramsN : {ParameterReadFailure, Ok(MetaA), Ok(MetaB)},
     leave : 0..Len(c)]
DefaultCodec ==
    [decode0 |-> Ok(Buffer(2)), decodeN |-> DecodeFailure,
     params0 |-> Ok(MetaA), paramsN |-> ParameterReadFailure, leave |-> 0]

Formats == {None, 0, 1, 2}

Idle(x, f, cd) ==
    /\ input = x
    /\ fmtArg = f
    /\ codec = cd
    /\ fn = "decode"
    /\ reshape = FALSE
    /\ pc = "idle"
    /\ nested = FALSE
    /\ stream = AsStream(x)
    /\ j2k_format = f
    /\ arr = <<>>
    /\ meta = NoMeta
    /\ ret = NoResult
    /\ err = "none"
    /\ log = <<>>
    /\ results = NoResults

\* every kind of input with the codec fixed, and every accepted input with
\* every codec
Init ==
    \/ \E c \in Contents, f \in Formats :
         \E x \in RawInputs(c) \cup ObjectInputs(c, SUBSET required_methods) :
            Idle(x, f, DefaultCodec)
    \/ \E c \in Contents, f \in Formats :
         \E x \in RawInputs(c) \cup ObjectInputs(c, {required_methods}) :
            \E cd \in CodecEnvs(c) : Idle(x, f, cd)

----------------------------------------------------------------------------
(* The calls *)

Kind(f, r) ==
    IF f = "get_parameters" THEN "params" ELSE IF r THEN "shaped" ELSE "flat"

Raise(e, at) ==
    /\ pc' = "raised"
    /\ err' = e
    /\ ret' = [tag |-> "error", val |-> at, err |-> e]

\* decode(stream, j2k_format, reshape) or get_parameters(stream, j2k_format)
\* is called on the input; each of the three kinds of call is made once
Call(f, r) ==
    /\ pc = "idle"
    /\ results[Kind(f, r)].tag = "none"
    /\ fn' = f
    /\ reshape' = r
    /\ pc' = "entry"
    /\ nested' = FALSE
    /\ stream' = AsStream(input)
    /\ j2k_format' = fmtArg
    /\ arr' = <<>>
    /\ meta' = NoMeta
    /\ ret' = NoResult
    /\ err' = "none"
    /\ log' = <<>>
    /\ UNCHANGED <<input, fmtArg, codec, results>>

\* lines 94-102 and 156-164
Normalise ==
    /\ pc = "entry"
    /\ stream' = Wrap(stream)
    /\ IF HasRequiredMethods(Wrap(stream))
       THEN pc' = "format" /\ UNCHANGED <<err, ret>>
       ELSE Raise("TypeError", "normalise")
    /\ UNCHANGED <<input, fmtArg, codec, fn, reshape, nested, j2k_format,
                   arr, meta, log, results>>

DecodeEntry == ~nested /\ fn = "decode" /\ Normalise
GetParametersEntry == (nested \/ fn = "get_parameters") /\ Normalise

\* lines 104-107 and 166-169; j2k_format is None or an int, so the assert
\* of lines 107 and 169 passes
Format ==
    /\ pc = "format"
    /\ IF j2k_format = None
       THEN LET g == _get_format(input.content, stream)
            IN  /\ stream' = g.stream
                /\ log' = log \o g.events
                /\ IF g.err = "none"
                   THEN /\ j2k_format' = g.value
                        /\ pc' = "codec"
                        /\ UNCHANGED <<err, ret>>
                   ELSE /\ Raise(g.err, "sniff")
                        /\ UNCHANGED j2k_format
       ELSE /\ pc' = "codec"
            /\ UNCHANGED <<stream, log, j2k_format, err, ret>>
    /\ UNCHANGED <<input, fmtArg, codec, fn, reshape, nested, arr, meta,
                   results>>

DecodeFormat == ~nested /\ fn = "decode" /\ Format
GetParametersFormat == (nested \/ fn = "get_parameters") /\ Format

\* lines 109-111
DecodeCodec ==
    /\ pc = "codec" /\ ~nested /\ fn = "decode"
    /\ log' = Append(log, [ev |-> "decode", pos |-> stream.pos])
    /\ stream' = NativeLeaves(stream)
    /\ LET out == NativeDecode(stream)
       IN  IF ~out.ok
           THEN Raise("RuntimeError", "decode") /\ UNCHANGED arr
           ELSE /\ arr' = out.val
                /\ err' = err
                /\ IF ~reshape
                   THEN /\ ret' = [tag |-> "flat", val |-> out.val, err |-> "none"]
                        /\ pc' = "done"
                   ELSE pc' = "params" /\ ret' = ret
    /\ UNCHANGED <<input, fmtArg, codec, fn, reshape, nested, j2k_format,
                   meta, results>>

\* line 113: get_parameters(stream, j2k_format) is entered
DecodeGetParameters ==
    /\ pc = "params" /\ ~nested /\ fn = "decode"
    /\ nested' = TRUE
    /\ pc' = "entry"
    /\ UNCHANGED <<input, fmtArg, codec, fn, reshape, stream, j2k_format,
                   arr, meta, ret, err, log, results>>

\* line 171, and the return to line 113 when nested
GetParametersCodec ==
    /\ pc = "codec" /\ (nested \/ fn = "get_parameters")
    /\ log' = Append(log, [ev |-> "get_parameters", pos |-> stream.pos])
    /\ stream' = NativeLeaves(stream)
    /\ LET out == NativeGetParameters(stream)
       IN  IF ~out.ok
           THEN Raise("RuntimeError", "get_parameters") /\ UNCHANGED <<meta, nested>>
           ELSE IF nested
           THEN /\ meta' = out.val
                /\ nested' = FALSE
                /\ pc' = "reshape"
                /\ UNCHANGED <<err, ret>>
           ELSE /\ ret' = [tag |-> "params", val |-> out.val, err |-> "none"]
                /\ pc' = "done"
                /\ UNCHANGED <<err, meta, nested>>
    /\ UNCHANGED <<input, fmtArg, codec, fn, reshape, j2k_format, arr,
                   results>>

\* lines 114-123
DecodeReshape ==
    /\ pc = "reshape" /\ ~nested /\ fn = "decode"
    /\ LET out == Reshaper(arr, meta)
       IN  IF out.tag = "error"
           THEN Raise(out.err, out.at)
           ELSE /\ ret' = [tag |-> "array", val |-> out, err |-> "none"]
                /\ pc' = "done"
                /\ err' = err
    /\ UNCHANGED <<input, fmtArg, codec, fn, reshape, nested, stream,
                   j2k_format, arr, meta, log, results>>

\* the call returns or raises to its caller
Return ==
    /\ pc \in {"done", "raised"}
    /\ results' = [results EXCEPT ![Kind(fn, reshape)] = ret]
    /\ pc' = "idle"
    /\ UNCHANGED <<input, fmtArg, codec, fn, reshape, nested, stream,
                   j2k_format, arr, meta, ret, err, log>>

Next ==
    \/ \E r \in BOOLEAN : Call("decode", r)
    \/ Call("get_parameters", TRUE)
    \/ DecodeEntry
    \/ GetParametersEntry
    \/ DecodeFormat
    \/ GetParametersFormat
    \/ DecodeCodec
    \/ DecodeGetParameters
    \/ GetParametersCodec
    \/ DecodeReshape
    \/ Return

Spec == Init /\ [][Next]_vars

----------------------------------------------------------------------------
(* The sniffer on its own: a call without a format that has passed the     *)
(* normaliser, on streams of many contents standing at any position.       *)

MutationBytes == {0, 255}
LongTail == 10

SniffContents ==
    {Fill(j, 0) \o Slice(sig, k) \o Fill(t, 7) :
        j \in 0..MaxJunk, sig \in MagicKeys, k \in 0..LongSig,
        t \in 0..MaxTail \cup {LongTail}}
    \cup {Mutate(sig, i, b) \o Fill(t, 7) :
        sig \in MagicKeys, i \in 1..ShortSig, b \in MutationBytes,
        t \in {0, LongSig - ShortSig}}
    \cup {Mutate(SigJP2RFC, i, b) \o Fill(t, 7) :
        i \in 1..LongSig, b \in MutationBytes, t \in {0, LongTail}}

AtFormat(x, f) ==
    /\ input = x
    /\ fmtArg = None
    /\ codec = DefaultCodec
    /\ fn = f
    /\ reshape = TRUE
    /\ pc = "format"
    /\ nested = FALSE
    /\ stream = Wrap(AsStream(x))
    /\ j2k_format = None
    /\ arr = <<>>
    /\ meta = NoMeta
    /\ ret = NoResult
    /\ err = "none"
    /\ log = <<>>
    /\ results = NoResults

InitSniff ==
    \E c \in SniffContents, f \in {"decode", "get_parameters"} :
        \E x \in RawInputs(c) \cup ObjectInputs(c, {required_methods}) :
            AtFormat(x, f)

NextSniff == DecodeFormat \/ GetParametersFormat

SpecSniff == InitSniff /\ [][NextSniff]_vars

----------------------------------------------------------------------------
(* The reshaper on its own: decode(reshape=True) on a codestream passed as *)
(* bytes, after line 113, for every buffer and parameter record the codec  *)
(* may have returned.                                                      *)

Buffers == {Buffer(n) : n \in 0..MaxBuf}
Metas ==
    {Meta(p, sg, r, c, n) :
        p \in 1..MaxPrecision, sg \in BOOLEAN, r \in 0..MaxDim,
        c \in 0..MaxDim, n \in 0..MaxComp}

AtReshape(a, m) ==
    /\ input = [kind |-> "bytes", caps |-> {}, content |-> SigJ2K, pos |-> 0]
    /\ fmtArg = None
    /\ codec = [decode0 |-> Ok(a), decodeN |-> DecodeFailure,
                params0 |-> Ok(m), paramsN |-> ParameterReadFailure,
                leave |-> 0]
    /\ fn = "decode"
    /\ reshape = TRUE
    /\ pc = "reshape"
    /\ nested = FALSE
    /\ stream = BytesIO(AsStream(input))
    /\ j2k_format = 0
    /\ arr = a
    /\ meta = m
    /\ ret = NoResult
    /\ err = "none"
    /\ log = <<[ev |-> "read", pos |-> 0], [ev |-> "seek", pos |-> 0],
               [ev |-> "decode", pos |-> 0],
               [ev |-> "get_parameters", pos |-> 0]>>
    /\ results = NoResults

InitReshape == \E a \in Buffers, m \in Metas : AtReshape(a, m)

NextReshape == DecodeReshape

SpecReshape == InitReshape /\ [][NextReshape]_vars

----------------------------------------------------------------------------
(* Properties *)

HasPrefix(c, sig) == Len(c) >= Len(sig) /\ SubSeq(c, 1, Len(sig)) = sig

\* the format the signature table gives the bytes c, None when it gives none
Classify(c) ==
    IF HasPrefix(c, SigJ2K) THEN 0
    ELSE IF HasPrefix(c, SigJP2) \/ HasPrefix(c, SigJP2RFC) THEN 2
    ELSE None

\* the position of the stream when the call starts, and the bytes it
\* yields from there
EntryPos == Wrap(AsStream(input)).pos
Presented == SubSeq(input.content, EntryPos + 1, Len(input.content))

Accepted == input.kind \in {"bytes", "bytearray"} \/ input.caps = required_methods

\* the current call has run _get_format
Sniffed == Len(log) >= 2 /\ log[1].ev = "read" /\ log[2].ev = "seek"

CodecEvents == {i \in DOMAIN log : log[i].ev \in {"decode", "get_parameters"}}

RECURSIVE Flatten(_)
Flatten(groups) ==
    IF groups = <<>> THEN <<>> ELSE Head(groups) \o Flatten(Tail(groups))

\* C1: sniffing a stream that stands at position 0 returns 0 when its
\* contents start with FF 4F FF 51, and 2 when they start with 0D 0A 87 0A
\* or with the 12-byte JP2 signature; whatever the position, a value
\* returned is 0 or 2, never 1.
C1_SniffTable ==
    Sniffed =>
        /\ (EntryPos = 0 /\ HasPrefix(input.content, SigJ2K))
              => (err = "none" /\ j2k_format = 0)
        /\ (EntryPos = 0 /\ HasPrefix(input.content, SigJP2))
              => (err = "none" /\ j2k_format = 2)
        /\ (EntryPos = 0 /\ HasPrefix(input.content, SigJP2RFC))
              => (err = "none" /\ j2k_format = 2)
        /\ err = "none" => j2k_format \in {0, 2}
        /\ err # "none" => (err = "ValueError" /\ j2k_format = None)

C1_Witness ==
    /\ Sniffed
    /\ EntryPos = 0
    /\ HasPrefix(input.content, SigJP2RFC)
    /\ Len(input.content) > ReadSize
    /\ j2k_format = 2

\* C2: a call of _get_format, whether it returns or raises, leaves the
\* stream at position 0 and leaves its contents as they were.
C2_SniffRestores ==
    [][(pc = "format" /\ j2k_format = None)
          => (stream'.pos = 0 /\ input'.content = input.content)]_vars

C2_Witness ==
    /\ Sniffed
    /\ EntryPos > 0
    /\ err = "ValueError"
    /\ stream.pos = 0

\* C3: when the bytes presented to a call without a format start with no
\* signature (fewer than 4 bytes and no bytes included), the call raises
\* ValueError from the sniffer and the native codec is never invoked.
C3_UnrecognizedFormat ==
    (pc # "idle" /\ fmtArg = None /\ Accepted /\ Classify(Presented) = None)
        => /\ pc \in {"entry", "format", "raised"}
           /\ CodecEvents = {}
           /\ pc = "raised" =>
                 (err = "ValueError" /\ ret.tag = "error" /\ ret.val = "sniff")

C3_Witness ==
    /\ pc = "raised"
    /\ fmtArg = None
    /\ Len(Presented) = ShortSig - 1
    /\ err = "ValueError"
    /\ CodecEvents = {}

\* C4: in a call whose format is sniffed, the stream stands at position 0
\* at every invocation of the native codec, the parameter read of
\* decode(reshape=True) included.
C4_CodecInvokedAtStart ==
    fmtArg = None => \A i \in CodecEvents : log[i].pos = 0

\* C5: when decode(reshape=True) returns an array, it is the flat buffer
\* of decode(reshape=False) reshaped by the record get_parameters returns
\* for the same input.
C5_RoundTrip ==
    (/\ results.shaped.tag = "array"
     /\ results.flat.tag # "none"
     /\ results.params.tag # "none")
        => /\ results.flat.tag = "flat"
           /\ results.params.tag = "params"
           /\ results.shaped.val
                 = Reshaper(results.flat.val, results.params.val)

\* C6: for every precision in 1..32 the buffer is reinterpreted with
\* elements of ceil(precision/8) bytes, signed as the record says: no
\* precision is refused for its width.
C6_ElementType ==
    pc \in {"done", "raised"} =>
        /\ ~(ret.tag = "error" /\ ret.val = "dtype")
        /\ ret.tag = "array" =>
              /\ ret.val.dtype.bits = 8 * ((meta.precision + 7) \div 8)
              /\ ret.val.dtype.signed = meta.is_signed
              /\ \A i \in DOMAIN ret.val.elems :
                    8 * Len(ret.val.elems[i]) = ret.val.dtype.bits

WholeBuffer(a, k) ==
    /\ Flatten(a.elems) = arr
    /\ \A i \in DOMAIN a.elems : Len(a.elems[i]) = k
    /\ Product(a.shape) = Len(a.elems)

C9_Normaliser ==
    pc # "idle" =>
        /\ ~Accepted =>
              /\ pc \in {"entry", "raised"}
              /\ log = <<>>
              /\ stream.pos = input.pos
              /\ pc = "raised" => (err = "TypeError" /\ ret.val = "normalise")
        /\ input.kind \in {"bytes", "bytearray"} =>
              /\ ~(ret.tag = "error" /\ ret.val = "normalise")
              /\ pc # "entry" => stream.kind = "BytesIO"
              /\ (pc = "format" /\ ~nested) => stream.pos = 0

C9_Witness ==
    /\ pc = "raised"
    /\ input.kind = "object"
    /\ Cardinality(input.caps) = 2
    /\ input.pos > 0
    /\ err = "TypeError"
    /\ log = <<>>

\* C10: the format a call without a format sniffs is the one the first
\* bytes of the stream (offset 0) give, whatever the position of the
\* stream when the call is made.
C10_SniffAtOffsetZero ==
    (fmtArg = None /\ Sniffed) =>
        IF Classify(input.content) = None
        THEN err = "ValueError" /\ ret.val = "sniff"
        ELSE err # "ValueError" /\ j2k_format = Classify(input.content)

====
